---- MODULE Spec2Model ----
(***************************************************************************)
(* Model of Chatbot-Guardias: the Flask webhook (app.py), the OCR pipeline *)
(* (utils/ocr_processor.py), the conversation replies                      *)
(* (utils/twilio_client.py) and the JSON record store                      *)
(* (utils/file_manager.py).                                                *)
(*                                                                         *)
(* Python strings that the code inspects character by character (OCR text, *)
(* message bodies, NumMedia) are sequences of one-character strings.       *)
(* Python values that may be None are the records None and Str(chars).     *)
(* The store file is a directory entry (exists) with a content, a sequence *)
(* of JSON tokens: json.dump and json.load are modelled as a serializer    *)
(* and a parser over these tokens, so a truncated or overwritten file is   *)
(* text that json.load really rejects.                                     *)
(***************************************************************************)
EXTENDS Integers, Sequences, FiniteSets, TLC

VARIABLES
    file,       \* guardias.json: [exists, content]
    last,       \* the last completed call (store call or webhook invocation)
    pending,    \* per sender: the record parsed from their media, not yet answered
    pc,         \* per concurrent caller: position inside a store function
    call,       \* per concurrent caller: the function being run and its argument
    guardias,   \* per concurrent caller: the local list `guardias` of save_guardia
    detached,   \* per concurrent caller: its open file was unlinked by os.remove
    ret,        \* per concurrent caller: how its last call ended
    calls       \* per concurrent caller: number of calls started

vars == <<file, last, pending, pc, call, guardias, detached, ret, calls>>

----------------------------------------------------------------------------
(* Bounds *)

\* Longest record list a sequential save_guardia is started on.
MaxStore == 2
\* Number of concurrent callers of the store functions.
NCallers == 2
\* Calls each concurrent caller makes.
MaxCalls == 1
\* Longest run of characters put in front of a sample text for the parser.
MaxPrefix == 2
\* Longest byte sequence handed to the format detector.
MaxBytes == 5

----------------------------------------------------------------------------
(* Python values *)

None == [k |-> "none", v |-> <<>>]
Str(chars) == [k |-> "str", v |-> chars]

RANGE(s) == {s[i] : i \in 1..Len(s)}

\* Lists over S of length at most n.
SeqsUpTo(S, n) == UNION {[1..m -> S] : m \in 0..n}

\* OCR output samples (ExtractedText).
TextEmpty == <<>>
TextRut == <<"1","2",".","3","4","5",".","6","7","8","-","5">>
TextRutK == <<"R","U","T",":"," ","9",".","8","7","6",".","5","4","3","-","K","\n">>
TextNoRut == <<"1","2",".","3","4","5",".","6","7","-","8">>
TextTwoRuts == <<"x","1","2","3",".","4","5","6",".","7","8","9","-","k"," ",
                 "9",".","8","7","6",".","5","4","3","-","K">>
OcrTexts == {TextEmpty, TextRut, TextRutK, TextNoRut, TextTwoRuts}

Digits == {"0","1","2","3","4","5","6","7","8","9"}

\* The text from position i matches \d{n}\.\d{3}\.\d{3}-[\dkK] (1-based i).
MatchAt(text, i, n) ==
    /\ i >= 1
    /\ i + n + 9 <= Len(text)
    /\ \A j \in 0..(n - 1) : text[i + j] \in Digits
    /\ text[i + n] = "."
    /\ \A j \in 1..3 : text[i + n + j] \in Digits
    /\ text[i + n + 4] = "."
    /\ \A j \in 5..7 : text[i + n + j] \in Digits
    /\ text[i + n + 8] = "-"
    /\ text[i + n + 9] \in Digits \cup {"k", "K"}

\* re.search returning the last match of the text, not the first.
re_search_Rightmost(text) ==
    LET starts == {i \in 1..Len(text) : MatchAt(text, i, 1) \/ MatchAt(text, i, 2)}
    IN  IF starts = {} THEN <<>>
        ELSE LET i == CHOOSE s \in starts : \A t \in starts : s >= t
                 n == IF MatchAt(text, i, 2) THEN 2 ELSE 1
             IN  <<SubSeq(text, i, i + n + 9)>>

\* re.search(rut_pattern, text): the leftmost match, the greedy \d{1,2} trying
\* two digits before one; <<>> when there is none, else <<matched substring>>.
re_search(text) ==
    LET starts == {i \in 1..Len(text) : MatchAt(text, i, 1) \/ MatchAt(text, i, 2)}
    IN  IF starts = {} THEN <<>>
        ELSE LET i == CHOOSE s \in starts : \A t \in starts : s <= t
                 n == IF MatchAt(text, i, 2) THEN 2 ELSE 1
             IN  <<SubSeq(text, i, i + n + 9)>>

NombreExtraido == Str(<<"N","o","m","b","r","e","E","x","t","r","a","i","d","o">>)
ApellidosExtraidos ==
    Str(<<"A","p","e","l","l","i","d","o","s","E","x","t","r","a","i","d","o","s">>)

\* parse_extracted_text(text): the dict it returns.
parse_extracted_text(text) ==
    LET rut_match == re_search(text)
        rut == IF rut_match # <<>> THEN Str(rut_match[1]) ELSE None
    IN  [nombre |-> NombreExtraido, apellidos |-> ApellidosExtraidos, rut |-> rut]

\* The dicts handed to save_guardia: those the parser produces.
Records == {parse_extracted_text(t) : t \in {TextEmpty, TextRut}}

----------------------------------------------------------------------------
(* JSON text of the store file *)

Tok(k, key, val) == [k |-> k, key |-> key, val |-> val]
LBrack == Tok("[", "", None)
RBrack == Tok("]", "", None)
LBrace == Tok("{", "", None)
RBrace == Tok("}", "", None)
Comma  == Tok(",", "", None)
Member(key, val) == Tok("member", key, val)

\* json.dump of one dict: { "nombre": .., "apellidos": .., "rut": .. }
\* (None is written as null, a str as a JSON string).
DumpRecord(r) ==
    <<LBrace, Member("nombre", r.nombre), Member("apellidos", r.apellidos),
      Member("rut", r.rut), RBrace>>

RECURSIVE DumpItems(_)
DumpItems(l) ==
    IF l = <<>> THEN <<>>
    ELSE IF Len(l) = 1 THEN DumpRecord(l[1])
    ELSE DumpRecord(l[1]) \o <<Comma>> \o DumpItems(Tail(l))

\* json.dump(guardias, f): the text of the whole array.
json_dump(l) == <<LBrack>> \o DumpItems(l) \o <<RBrack>>

\* The tokens at o..o+4 are one object with the three members.
IsRecordAt(t, o) ==
    /\ t[o] = LBrace
    /\ \A j \in 1..3 : t[o + j].k = "member"
    /\ {t[o + j].key : j \in 1..3} = {"nombre", "apellidos", "rut"}
    /\ t[o + 4] = RBrace

RecordAt(t, o) ==
    [key \in {"nombre", "apellidos", "rut"} |->
        (CHOOSE j \in 1..3 : t[o + j].key = key) ]

ValueAt(t, o) ==
    LET f == RecordAt(t, o)
    IN  [nombre |-> t[o + f["nombre"]].val,
         apellidos |-> t[o + f["apellidos"]].val,
         rut |-> t[o + f["rut"]].val]

\* The text is one JSON array of such objects.
WellFormed(t) ==
    /\ Len(t) >= 2
    /\ t[1] = LBrack
    /\ t[Len(t)] = RBrack
    /\ \/ Len(t) = 2
       \/ /\ (Len(t) - 1) % 6 = 0
          /\ \A i \in 0..((Len(t) - 1) \div 6 - 1) :
                /\ IsRecordAt(t, 2 + 6 * i)
                /\ t[7 + 6 * i] = (IF 7 + 6 * i = Len(t) THEN RBrack ELSE Comma)

\* json.load(f): [ok |-> TRUE, val |-> the list], or ok = FALSE for
\* json.JSONDecodeError (empty, truncated or overwritten text).
json_load(t) ==
    IF WellFormed(t)
    THEN [ok |-> TRUE,
          val |-> [i \in 1..((Len(t) - 1) \div 6) |-> ValueAt(t, 2 + 6 * (i - 1))]]
    ELSE [ok |-> FALSE, val |-> <<>>]

----------------------------------------------------------------------------
(* The store file and the store functions, file_manager.py *)

AbsentFile == [exists |-> FALSE, content |-> <<>>]
FileWith(t) == [exists |-> TRUE, content |-> t]

\* os.path.exists(JSON_FILE_PATH)
Exists(f) == f.exists

\* open(JSON_FILE_PATH, "w"): creates the file or truncates it to nothing.
OpenWrite(f) == FileWith(<<>>)

\* Writing t from offset 0 of the open file and closing it: what the file held
\* beyond the written text stays (nothing, right after this caller's truncation).
WriteAt0(f, t) ==
    FileWith(t \o (IF Len(f.content) > Len(t)
                   THEN SubSeq(f.content, Len(t) + 1, Len(f.content))
                   ELSE <<>>))

\* json.load with its except json.JSONDecodeError branch: the list read from an
\* existing file, [] when the text does not parse.
LoadOrEmpty(f) ==
    LET j == json_load(f.content)
    IN  IF j.ok THEN j.val ELSE <<>>

\* save_guardia writing the list back as it was read.
save_guardia_NoAppend(f, data) ==
    LET read == IF Exists(f) THEN LoadOrEmpty(f) ELSE <<>>
    IN  WriteAt0(OpenWrite(f), json_dump(read))

\* save_guardia letting json.JSONDecodeError escape: the file stays as it is.
save_guardia_DecodeErrorEscapes(f, data) ==
    IF Exists(f) /\ ~json_load(f.content).ok THEN f
    ELSE WriteAt0(OpenWrite(f), json_dump(Append(LoadOrEmpty(f), data)))

\* save_guardia putting the new record in front of the list it read.
save_guardia_Prepends(f, data) ==
    LET read == IF Exists(f) THEN LoadOrEmpty(f) ELSE <<>>
    IN  WriteAt0(OpenWrite(f), json_dump(<<data>> \o read))

\* save_guardia(data) run alone, start to end: the file it leaves.
save_guardia(f, data) ==
    LET read == IF Exists(f) THEN LoadOrEmpty(f) ELSE <<>>
        appended == Append(read, data)
    IN  WriteAt0(OpenWrite(f), json_dump(appended))

\* get_guardias() run alone: the list it returns.
get_guardias(f) ==
    IF Exists(f) THEN LoadOrEmpty(f) ELSE <<>>

\* clear_guardias() run alone: the file it leaves.
clear_guardias(f) ==
    IF Exists(f) THEN AbsentFile ELSE f

\* What a call found on disk: no file, text that does not parse, or a list.
FileKind(f) ==
    IF ~Exists(f) THEN "absent"
    ELSE IF json_load(f.content).ok THEN "list" ELSE "corrupt"

----------------------------------------------------------------------------
(* Python str methods used on NumMedia and Body *)

IsSpace(c) == c \in {" ", "\t", "\n", "\r"}

RECURSIVE lstrip(_)
lstrip(s) == IF s # <<>> /\ IsSpace(Head(s)) THEN lstrip(Tail(s)) ELSE s

RECURSIVE rstrip(_)
rstrip(s) ==
    IF s # <<>> /\ IsSpace(s[Len(s)]) THEN rstrip(SubSeq(s, 1, Len(s) - 1)) ELSE s

\* str.strip()
strip(s) == rstrip(lstrip(s))

\* The upper-case letters that occur in the message bodies of the model, with
\* their lower-case forms; every other character is its own lower case.
UpperChars == <<"A","C","D","E","G","H","I","L","N","O","R","S","T","U","Y","Í">>
LowerChars == <<"a","c","d","e","g","h","i","l","n","o","r","s","t","u","y","í">>

LowerChar(c) ==
    IF \E i \in 1..Len(UpperChars) : UpperChars[i] = c
    THEN LowerChars[CHOOSE i \in 1..Len(UpperChars) : UpperChars[i] = c]
    ELSE c

\* str.lower()
lower(s) == [i \in 1..Len(s) |-> LowerChar(s[i])]

\* needle in text
Contains(text, needle) ==
    \E i \in 1..(Len(text) - Len(needle) + 1) :
        SubSeq(text, i, i + Len(needle) - 1) = needle

DigitValue(c) == CHOOSE n \in 0..9 : <<"0","1","2","3","4","5","6","7","8","9">>[n + 1] = c

RECURSIVE DigitsValue(_)
DigitsValue(s) ==
    IF s = <<>> THEN 0
    ELSE 10 * DigitsValue(SubSeq(s, 1, Len(s) - 1)) + DigitValue(s[Len(s)])

\* int(s) for a str: surrounding whitespace and one sign are accepted, then
\* decimal digits only; anything else raises ValueError (ok = FALSE).
int(s) ==
    LET t == strip(s)
        signed == t # <<>> /\ t[1] \in {"+", "-"}
        digits == IF signed THEN Tail(t) ELSE t
    IN  IF digits # <<>> /\ \A i \in 1..Len(digits) : digits[i] \in Digits
        THEN [ok |-> TRUE,
              val |-> IF signed /\ t[1] = "-" THEN 0 - DigitsValue(digits)
                      ELSE DigitsValue(digits)]
        ELSE [ok |-> FALSE, val |-> 0]

----------------------------------------------------------------------------
(* The OCR pipeline, ocr_processor.py *)

\* What requests.get and raise_for_status give for the media URL.
FetchFailures == {"ConnectionError", "HTTPError 404"}

\* A picture stands for what Tesseract does with it after preprocess_image_cv2:
\* <<text>> when image_to_string returns text, <<>> when it raises.
Shows(text) == <<text>>
Unreadable == <<>>

\* A downloaded file: its bytes (as far as the code looks at them), what
\* pdf2image.convert_from_bytes makes of them (ok = FALSE: it raises; else the
\* rendered pages, one picture each) and what cv2.imdecode makes of them
\* ("image" with the picture, "none" for undecodable bytes, "error" for the
\* cv2.error it raises on an empty buffer).
MediaFile(bytes, pdfOk, pages, img, picture) ==
    [bytes |-> bytes, pdf |-> [ok |-> pdfOk, pages |-> pages],
     image |-> [k |-> img, picture |-> picture]]

PdfMagic == <<"%","P","D","F">>
PdfBytes == PdfMagic \o <<"-","1",".","4">>
JpegBytes == <<"0xFF","0xD8","0xFF","0xE0">>
PngBytes == <<"0x89","P","N","G">>

Pdf2Pages  == MediaFile(PdfBytes, TRUE, <<Shows(TextRut), Shows(TextRutK)>>, "none", Unreadable)
PdfBlank   == MediaFile(PdfBytes, TRUE, <<Shows(TextEmpty)>>, "none", Unreadable)
PdfNoPages == MediaFile(PdfBytes, TRUE, <<>>, "none", Unreadable)
PdfBroken  == MediaFile(PdfMagic, FALSE, <<>>, "none", Unreadable)
JpegCard   == MediaFile(JpegBytes, FALSE, <<>>, "image", Shows(TextRut))
JpegBlank  == MediaFile(JpegBytes \o <<"0x00">>, FALSE, <<>>, "image", Shows(TextEmpty))
JpegOcrFails == MediaFile(JpegBytes \o <<"0x01">>, FALSE, <<>>, "image", Unreadable)
PngNoRut   == MediaFile(PngBytes, FALSE, <<>>, "image", Shows(TextNoRut))
ShortBytes == MediaFile(<<"%","P","D">>, FALSE, <<>>, "none", Unreadable)
NoBytes    == MediaFile(<<>>, FALSE, <<>>, "error", Unreadable)

MediaFiles ==
    {Pdf2Pages, PdfBlank, PdfNoPages, PdfBroken, JpegCard, JpegBlank, JpegOcrFails,
     PngNoRut, ShortBytes, NoBytes}

Fetched(m) == [ok |-> TRUE, why |-> "", media |-> m]
FetchFailed(why) == [ok |-> FALSE, why |-> why, media |-> NoBytes]
Fetches == {Fetched(m) : m \in MediaFiles} \cup {FetchFailed(w) : w \in FetchFailures}

Raised(exc) == [raised |-> TRUE, exc |-> exc, text |-> <<>>]
Returned(text) == [raised |-> FALSE, exc |-> "", text |-> text]

\* is_pdf looking for the signature anywhere in the bytes.
is_pdf_AnyOffset(file_bytes) ==
    \E i \in 1..(Len(file_bytes) - 3) : SubSeq(file_bytes, i, i + 3) = PdfMagic

\* file_bytes[:4] == b'%PDF'
is_pdf(file_bytes) ==
    SubSeq(file_bytes, 1, IF Len(file_bytes) < 4 THEN Len(file_bytes) ELSE 4) = PdfMagic

\* convert_from_bytes(file_bytes, dpi=300), called without first_page or
\* last_page: it rasterizes every page of the document and returns them all.
convert_from_bytes(m) ==
    [ok |-> m.pdf.ok, images |-> m.pdf.pages, rendered |-> 1..Len(m.pdf.pages)]

\* extract_text_from_image(preprocess_image_cv2(cv_image))
extract_text_from_image(picture) ==
    IF picture = Unreadable THEN Raised("TesseractError") ELSE Returned(picture[1])

\* process_media answering every failure with an empty text.
process_media_SwallowsErrors(fetch) ==
    IF ~fetch.ok THEN Returned(<<>>)
    ELSE LET m == fetch.media
             picture == IF is_pdf(m.bytes)
                        THEN IF ~m.pdf.ok \/ m.pdf.pages = <<>> THEN Unreadable
                             ELSE m.pdf.pages[1]
                        ELSE IF m.image.k # "image" THEN Unreadable
                             ELSE m.image.picture
         IN  IF picture = Unreadable THEN Returned(<<>>)
             ELSE extract_text_from_image(picture)

\* process_media(media_url): the text it returns, or the exception it raises.
process_media(fetch) ==
    IF ~fetch.ok
    THEN Raised("Error al descargar el archivo: " \o fetch.why)
    ELSE LET m == fetch.media
         IN  IF is_pdf(m.bytes)
             THEN LET pil_images == convert_from_bytes(m)
                  IN  IF ~pil_images.ok THEN Raised("PDFPageCountError")
                      ELSE IF pil_images.images = <<>>
                           THEN Raised("No se pudo convertir el PDF a imagen.")
                           ELSE extract_text_from_image(pil_images.images[1])
             ELSE IF m.image.k = "error" THEN Raised("cv2.error")
                  ELSE IF m.image.k = "none"
                       THEN Raised("No se pudo decodificar la imagen.")
                       ELSE extract_text_from_image(m.image.picture)

----------------------------------------------------------------------------
(* Outbound messages and the conversation replies, twilio_client.py *)

\* A message body is a sequence of pieces: fixed text, or characters taken from
\* the data.
Lit(text) == [lit |-> text, chars |-> <<>>]
Chars(chars) == [lit |-> "", chars |-> chars]

\* str(value) inside the f-string: None prints as the word None.
Format(value) ==
    IF value = None THEN Chars(<<"N","o","n","e">>) ELSE Chars(value.v)

Message(to, body) == [to |-> to, body |-> body]

\* send_message catching the failure of the Twilio call and returning normally.
send_message_SwallowsFailure(to, body, send) ==
    IF send = "ok"
    THEN [raised |-> FALSE, exc |-> "", sent |-> <<Message(to, body)>>]
    ELSE [raised |-> FALSE, exc |-> "", sent |-> <<>>]

\* send_message(to, body): what the Twilio call did. With send = "fail"
\* (credentials missing, API error) it raises and nothing is sent.
send_message(to, body, send) ==
    IF send = "ok"
    THEN [raised |-> FALSE, exc |-> "", sent |-> <<Message(to, body)>>]
    ELSE [raised |-> TRUE, exc |-> "TwilioRestException", sent |-> <<>>]

ConfirmationPrompt(data) ==
    <<Lit("Nombre: "), Format(data.nombre), Lit("\nApellidos: "),
      Format(data.apellidos), Lit("\nRUT: "), Format(data.rut),
      Lit("\n\n¿Es correcto? (Sí/No)")>>

send_confirmation(data, to, send) == send_message(to, ConfirmationPrompt(data), send)

confirmation_message == <<Lit("Gracias por confirmar. Sus datos han sido registrados.")>>
correction_message ==
    <<Lit("Por favor, ingrese manualmente sus datos: Nombre, Apellidos, RUT.")>>
list_message == <<Lit("Actualmente, los guardias registrados son: [lista de guardias].")>>
default_message ==
    <<Lit("Comando no reconocido. Por favor, responda con 'Sí' o 'No', o envíe un comando válido.")>>

si_accent == <<"s","í">>
si_plain == <<"s","i">>
no_word == <<"n","o">>
registrados == <<"r","e","g","i","s","t","r","a","d","o","s">>

\* handle_text_message testing "no" in text, not text == "no".
handle_text_message_NoAnywhere(body, to, send) ==
    LET text == lower(strip(body))
        reply == IF text \in {si_accent, si_plain} THEN confirmation_message
                 ELSE IF Contains(text, no_word) THEN correction_message
                 ELSE IF Contains(text, registrados) THEN list_message
                 ELSE default_message
    IN  [call |-> send_message(to, reply, send), saved |-> <<>>]

\* handle_text_message storing the reply as a record in every branch but si.
handle_text_message_SavesReply(body, to, send) ==
    LET text == lower(strip(body))
        reply == IF text \in {si_accent, si_plain} THEN confirmation_message
                 ELSE IF text = no_word THEN correction_message
                 ELSE IF Contains(text, registrados) THEN list_message
                 ELSE default_message
    IN  [call |-> send_message(to, reply, send),
         saved |-> IF text \in {si_accent, si_plain} THEN <<>>
                   ELSE <<[nombre |-> Str(text), apellidos |-> None, rut |-> None]>>]

\* handle_text_message(body, to): the Twilio call it makes and the records it
\* hands to save_guardia (it calls no store function: none).
handle_text_message(body, to, send) ==
    LET text == lower(strip(body))
        reply == IF text \in {si_accent, si_plain} THEN confirmation_message
                 ELSE IF text = no_word THEN correction_message
                 ELSE IF Contains(text, registrados) THEN list_message
                 ELSE default_message
    IN  [call |-> send_message(to, reply, send), saved |-> <<>>]

\* The pages process_media has rasterized when it is done with the file.
PagesRendered(fetch) ==
    IF fetch.ok /\ is_pdf(fetch.media.bytes)
    THEN convert_from_bytes(fetch.media).rendered
    ELSE {}

----------------------------------------------------------------------------
(* The webhook, app.py *)

Form(NumMedia, From, Body) == [NumMedia |-> NumMedia, From |-> From, Body |-> Body]
World(fetch, send) == [fetch |-> fetch, send |-> send]

Response(status, text, branch, sent, data, log, saved) ==
    [status |-> status, text |-> text, branch |-> branch, sent |-> sent,
     data |-> data, log |-> log, saved |-> saved]

\* The except branch answering with the exception's own text.
Error500_Leaks(branch, data, exc, saved) ==
    Response(500, exc, branch, <<>>, data, exc, saved)

\* The except branch of incoming: the error goes to the log, the caller gets the
\* fixed text.
Error500(branch, data, exc, saved) ==
    Response(500, "Error procesando mensaje", branch, <<>>, data, exc, saved)

\* incoming with the save_guardia(data) call of line 69 in force.
incoming_SavesOnParse(req, env) ==
    LET num_media == IF req.NumMedia = <<>> THEN [ok |-> TRUE, val |-> 0]
                     ELSE int(req.NumMedia[1])
        sender == req.From
    IN  IF ~num_media.ok
        THEN Error500("none", <<>>, "ValueError: invalid literal for int()", <<>>)
        ELSE IF num_media.val > 0
        THEN LET extracted_text == process_media(env.fetch)
             IN  IF extracted_text.raised
                 THEN Error500("media", <<>>, extracted_text.exc, <<>>)
                 ELSE LET data == parse_extracted_text(extracted_text.text)
                          sc == send_confirmation(data, sender, env.send)
                      IN  IF sc.raised
                          THEN Error500("media", <<data>>, sc.exc, <<>>)
                          ELSE Response(200, "Mensaje de medios procesado", "media",
                                        sc.sent, <<data>>, "", <<data>>)
        ELSE LET body == lower(strip(IF req.Body = <<>> THEN <<>> ELSE req.Body[1]))
                 h == handle_text_message(body, sender, env.send)
             IN  IF h.call.raised
                 THEN Error500("text", <<>>, h.call.exc, h.saved)
                 ELSE Response(200, "Mensaje de texto procesado", "text",
                               h.call.sent, <<>>, "", h.saved)

\* incoming(): one whole invocation on the form req, with the outside world
\* answering as env says: the response, the messages sent, the records handed
\* to save_guardia (the call at app.py line 69 is commented out: none).
incoming(req, env) ==
    LET num_media == IF req.NumMedia = <<>> THEN [ok |-> TRUE, val |-> 0]
                     ELSE int(req.NumMedia[1])
        sender == req.From
    IN  IF ~num_media.ok
        THEN Error500("none", <<>>, "ValueError: invalid literal for int()", <<>>)
        ELSE IF num_media.val > 0
        THEN LET extracted_text == process_media(env.fetch)
             IN  IF extracted_text.raised
                 THEN Error500("media", <<>>, extracted_text.exc, <<>>)
                 ELSE LET data == parse_extracted_text(extracted_text.text)
                          sc == send_confirmation(data, sender, env.send)
                      IN  IF sc.raised
                          THEN Error500("media", <<data>>, sc.exc, <<>>)
                          ELSE Response(200, "Mensaje de medios procesado", "media",
                                        sc.sent, <<data>>, "", <<>>)
        ELSE LET body == lower(strip(IF req.Body = <<>> THEN <<>> ELSE req.Body[1]))
                 h == handle_text_message(body, sender, env.send)
             IN  IF h.call.raised
                 THEN Error500("text", <<>>, h.call.exc, h.saved)
                 ELSE Response(200, "Mensaje de texto procesado", "text",
                               h.call.sent, <<>>, "", h.saved)

\* The conversation of the design (one pending record per sender), which the
\* program itself keeps nowhere: a processed media message makes its record the
\* sender's pending one, a reply of si/sí or no ends it.
PendingAfter(pnd, req, r) ==
    LET said == lower(strip(IF req.Body = <<>> THEN <<>> ELSE req.Body[1]))
    IN  IF r.branch = "media" /\ r.status = 200
        THEN [pnd EXCEPT ![req.From] = r.data]
        ELSE IF r.branch = "text" /\ said \in {si_accent, si_plain, no_word}
        THEN [pnd EXCEPT ![req.From] = <<>>]
        ELSE pnd

----------------------------------------------------------------------------
(* Sequential calls of the store functions *)

Callers == 1..NCallers
Senders == {"whatsapp:+56911111111", "whatsapp:+56922222222"}

NumMediaText == {<<"0">>, <<"-","1">>}
NumMediaBad == {<<"a","b","c">>, <<"1",".","5">>, <<>>}

Bodies ==
    { <<"S","i">>, <<" ","s","i","\n">>, <<"S","Í">>, <<"s","í"," ">>,
      <<"n","o">>, <<" ","N","O"," ">>,
      <<"c","u","a","n","t","o","s"," ","r","e","g","i","s","t","r","a","d","o","s",
        " ","h","a","y">>,
      <<"R","E","G","I","S","T","R","A","D","O","S">>,
      <<"n","o"," ","r","e","g","i","s","t","r","a","d","o","s">>,
      <<"h","o","l","a">>, <<"s","i"," ","n","o">>, <<>> }

\* The webhook calls of the model: media messages, text messages (NumMedia
\* missing or not positive) and forms whose NumMedia is no integer.
Sender1 == "whatsapp:+56911111111"
MediaInvocations ==
    {<<Form(<<<<"1">>>>, s, <<>>), World(f, "ok")>> : s \in Senders, f \in Fetches}
    \cup {<<Form(<<<<" ","2">>>>, Sender1, <<<<"n","o">>>>), World(Fetched(JpegCard), "fail")>>}
TextInvocations ==
    {<<Form(<<>>, s, <<b>>), World(FetchFailed("ConnectionError"), "ok")>> :
        s \in Senders, b \in Bodies}
    \cup {<<Form(<<>>, Sender1, b), World(Fetched(JpegCard), "fail")>> :
            b \in {<<>>, <<<<"S","i">>>>}}
    \cup {<<Form(<<n>>, Sender1, <<<<"S","i">>>>), World(Fetched(JpegCard), "ok")>> :
            n \in NumMediaText}
BadInvocations ==
    {<<Form(<<n>>, Sender1, <<<<"S","i">>>>), World(Fetched(JpegCard), "ok")>> :
        n \in NumMediaBad}
Invocations == MediaInvocations \cup TextInvocations \cup BadInvocations

NoCall == [op |-> "none"]
StoreCall(op, data, was, returned, after) ==
    [op |-> op, data |-> data, was |-> was, ret |-> returned, after |-> after]
\* The call before this one, as far as a later call's result depends on it.
Summary(l) ==
    IF l.op \in {"save_guardia", "clear_guardias"}
    THEN [op |-> l.op, data |-> l.data] ELSE [op |-> "other", data |-> <<>>]

\* A file an interrupted earlier run left behind: truncated by open(.., "w") and
\* never written, or cut off inside the first record.
InterruptedFiles ==
    {FileWith(<<>>)} \cup
    {FileWith(SubSeq(json_dump(<<r>>), 1, 3)) : r \in {parse_extracted_text(TextRut)}}

\* How a call ended: it returned val, or it raised.
NotCalled == [k |-> "none", val |-> <<>>]
Running == [k |-> "running", val |-> <<>>]
ReturnedValue(val) == [k |-> "returned", val |-> val]
RaisedError == [k |-> "raised", val |-> <<>>]

IdleCallers ==
    /\ pc = [p \in Callers |-> "idle"]
    /\ call = [p \in Callers |-> [op |-> "none", data |-> <<>>]]
    /\ guardias = [p \in Callers |-> <<>>]
    /\ detached = [p \in Callers |-> FALSE]
    /\ ret = [p \in Callers |-> NotCalled]
    /\ calls = [p \in Callers |-> 0]

Init ==
    /\ file \in {AbsentFile} \cup InterruptedFiles
    /\ last = NoCall
    /\ pending = [s \in Senders |-> <<>>]
    /\ IdleCallers

SaveGuardia(data) ==
    /\ Len(get_guardias(file)) < MaxStore
    /\ file' = save_guardia(file, data)
    /\ last' = StoreCall("save_guardia", <<data>>, FileKind(file), <<>>, Summary(last))
    /\ UNCHANGED <<pending, pc, call, guardias, detached, ret, calls>>

GetGuardias ==
    /\ last' = StoreCall("get_guardias", <<>>, FileKind(file), get_guardias(file),
                         Summary(last))
    /\ UNCHANGED <<file, pending, pc, call, guardias, detached, ret, calls>>

ClearGuardias ==
    /\ file' = clear_guardias(file)
    /\ last' = StoreCall("clear_guardias", <<>>, FileKind(file), <<>>, Summary(last))
    /\ UNCHANGED <<pending, pc, call, guardias, detached, ret, calls>>

\* The invocations with what incoming() does on each.
Handled == [i \in Invocations |-> incoming(i[1], i[2])]

RECURSIVE SaveAll(_, _)
SaveAll(f, records) ==
    IF records = <<>> THEN f
    ELSE SaveAll(save_guardia(f, Head(records)), Tail(records))

Webhook(req, env) ==
    LET r == Handled[<<req, env>>]
    IN  /\ file' = SaveAll(file, r.saved)
        /\ last' = [op |-> "incoming", req |-> req, env |-> env,
                    status |-> r.status, text |-> r.text, branch |-> r.branch,
                    sent |-> r.sent, data |-> r.data, log |-> r.log,
                    saved |-> r.saved, had |-> pending[req.From]]
        /\ pending' = PendingAfter(pending, req, r)
        /\ UNCHANGED <<pc, call, guardias, detached, ret, calls>>

Next ==
    \/ \E i \in Invocations : Webhook(i[1], i[2])
    \/ \E data \in Records : SaveGuardia(data)
    \/ GetGuardias
    \/ ClearGuardias

Spec == Init /\ [][Next]_vars

----------------------------------------------------------------------------
(* Claims about sequential store calls and the webhook, checked under Spec *)

MediaForms == {i[1] : i \in MediaInvocations}
TextForms == {i[1] : i \in TextInvocations}
BadForms == {i[1] : i \in BadInvocations}

\* The reply text as the conversation rules read it: trimmed, lower case.
Said(req) == lower(strip(IF req.Body = <<>> THEN <<>> ELSE req.Body[1]))

IsTextCall(l) == l.op = "incoming" /\ l.req \in TextForms
IsMediaCall(l) == l.op = "incoming" /\ l.req \in MediaForms

\* C2: get_guardias called right after save_guardia(r) returns a list that
\* contains r, and called right after clear_guardias it returns the empty list.
C2_RoundTrip ==
    last.op = "get_guardias" =>
        /\ last.after.op = "save_guardia" => last.after.data[1] \in RANGE(last.ret)
        /\ last.after.op = "clear_guardias" => last.ret = <<>>

C2_Witness ==
    /\ last.op = "get_guardias"
    /\ last.after.op = "save_guardia"
    /\ Len(last.ret) = 2

\* C3: a reply of si/sí from a sender with a pending record is answered with the
\* acknowledgment, and the store then contains that record.
C3_ConfirmPersists ==
    (/\ IsTextCall(last)
     /\ Said(last.req) \in {si_accent, si_plain}
     /\ last.had # <<>>
     /\ last.env.send = "ok")
    => /\ last.sent = <<Message(last.req.From, confirmation_message)>>
       /\ last.had[1] \in RANGE(get_guardias(file))

\* C4: a reply of no is answered with the correction request and the handling
\* leaves the store file as it was.
C4_NoLeavesStore ==
    [][ (/\ last' # last
         /\ IsTextCall(last')
         /\ Said(last'.req) = no_word)
        => /\ file' = file
           /\ last'.env.send = "ok" =>
                 /\ last'.status = 200
                 /\ last'.sent = <<Message(last'.req.From, correction_message)>> ]_vars

C4_Witness ==
    /\ IsTextCall(last)
    /\ Said(last.req) = no_word
    /\ last.had # <<>>
    /\ last.status = 200
    /\ Len(get_guardias(file)) > 0

\* C5: the reply to a text containing registrados shows the records that
\* get_guardias returns for the store at that moment.
C5_ListShowsStore ==
    (/\ IsTextCall(last)
     /\ Said(last.req) \notin {si_accent, si_plain, no_word}
     /\ Contains(Said(last.req), registrados)
     /\ last.status = 200)
    => /\ Len(last.sent) = 1
       /\ \A r \in RANGE(get_guardias(file)) :
             \E i \in 1..Len(last.sent[1].body) : last.sent[1].body[i] = Format(r.rut)

\* C6: the reply to a text is decided by the trimmed, lower-cased text alone:
\* si/sí gets the acknowledgment, no the correction request, a text containing
\* registrados the list reply, anything else the fixed default reply, which
\* leaves the sender's pending record as it was.
C6_Classification ==
    (IsTextCall(last) /\ last.env.send = "ok") =>
        LET n == Said(last.req)
            reply == last.sent[1].body
        IN  /\ Len(last.sent) = 1
            /\ last.sent[1].to = last.req.From
            /\ reply \in {confirmation_message, correction_message, list_message,
                          default_message}
            /\ reply = confirmation_message <=> n \in {si_accent, si_plain}
            /\ reply = correction_message <=> n = no_word
            /\ reply = list_message <=>
                  (n \notin {si_accent, si_plain, no_word} /\ Contains(n, registrados))
            /\ reply = default_message => pending[last.req.From] = last.had

C6_Witness ==
    /\ IsTextCall(last)
    /\ last.req.Body = << <<" ","N","O"," ">> >>
    /\ last.sent = <<Message(last.req.From, correction_message)>>

\* The failures of C7: the fetch fails, the bytes are no image, the PDF renders
\* to no page.
Aborts(env) ==
    \/ ~env.fetch.ok
    \/ env.fetch.ok /\ env.fetch.media \in {ShortBytes, NoBytes, PdfNoPages}

\* C7: a media message whose fetch, decoding or PDF rendering fails ends with
\* HTTP 500, no record, no message sent and the store file as it was.
C7_FailureAborts ==
    [][ (/\ last' # last
         /\ IsMediaCall(last')
         /\ Aborts(last'.env))
        => /\ last'.status = 500
           /\ last'.data = <<>>
           /\ last'.sent = <<>>
           /\ file' = file
           /\ pending' = pending ]_vars

C7_Witness ==
    /\ IsMediaCall(last)
    /\ last.env.fetch.ok
    /\ last.env.fetch.media = PdfNoPages
    /\ last.status = 500
    /\ last.had # <<>>

BlankMedia == {PdfBlank, JpegBlank}
NullRecord == [nombre |-> None, apellidos |-> None, rut |-> None]

\* C8: a media message whose OCR text is empty ends with HTTP 200 and the
\* processed status, a record whose three fields are null, and the confirmation
\* prompt sent.
C8_BlankGivesNullRecord ==
    (/\ IsMediaCall(last)
     /\ last.env.fetch.ok
     /\ last.env.fetch.media \in BlankMedia
     /\ last.env.send = "ok")
    => /\ last.status = 200
       /\ last.text = "Mensaje de medios procesado"
       /\ last.data = <<NullRecord>>
       /\ last.sent = <<Message(last.req.From, ConfirmationPrompt(NullRecord))>>

\* C9: on a store file whose text is malformed JSON, get_guardias returns the
\* empty list and save_guardia(r) leaves a file holding exactly [r].
C9_CorruptRecovered ==
    /\ (last.op = "get_guardias" /\ last.was = "corrupt") => last.ret = <<>>
    /\ (last.op = "save_guardia" /\ last.was = "corrupt") =>
          /\ Exists(file)
          /\ json_load(file.content) = [ok |-> TRUE, val |-> last.data]

C9_Witness ==
    /\ last.op = "save_guardia"
    /\ last.was = "corrupt"
    /\ get_guardias(file) = last.data

GoodMedia == {Pdf2Pages, PdfBlank, JpegCard, JpegBlank, PngNoRut}

\* No stage of the handling fails: NumMedia is an integer, the media is fetched
\* and decoded, the outbound message is sent.
Succeeds(req, env) ==
    /\ req \notin BadForms
    /\ env.send = "ok"
    /\ req \in MediaForms => env.fetch.ok /\ env.fetch.media \in GoodMedia

\* C10: an invocation answers 200 with a status text exactly when no stage
\* failed, and otherwise 500 with one fixed text, whatever failed.
C10_OneResponse ==
    last.op = "incoming" =>
        /\ last.status \in {200, 500}
        /\ last.status = 200 <=> Succeeds(last.req, last.env)
        /\ last.status = 200 =>
              last.text \in {"Mensaje de medios procesado", "Mensaje de texto procesado"}
        /\ last.status = 500 => last.text = "Error procesando mensaje"

C10_Witness ==
    /\ last.op = "incoming"
    /\ last.req \in MediaForms
    /\ last.env.send = "fail"
    /\ last.status = 500

\* C11: in sequential calls the store only changes by save_guardia, which keeps
\* every stored record unchanged in its place and adds the new one at the end,
\* or by clear_guardias, which removes all of them.
C11_AppendOnly ==
    [][ file' # file =>
          \/ /\ last'.op = "save_guardia"
             /\ get_guardias(file') = Append(get_guardias(file), last'.data[1])
          \/ /\ last'.op = "clear_guardias"
             /\ get_guardias(file') = <<>> ]_vars

C11_Witness ==
    /\ last.op = "save_guardia"
    /\ last.was = "list"
    /\ Len(get_guardias(file)) = 2
    /\ get_guardias(file)[1] # get_guardias(file)[2]

\* C15: the acknowledgment that the data were registered is sent to a sender
\* only while a record of an earlier media message of that sender awaits its
\* answer; a si from a sender with no pending record gets no acknowledgment.
C15_AckNeedsPending ==
    (/\ IsTextCall(last)
     /\ \E i \in 1..Len(last.sent) : last.sent[i].body = confirmation_message)
    => last.had # <<>>

\* C16: a webhook call handling a media message leaves the store file as it
\* was, and a webhook call adds a record to the store only when it is the
\* sender's pending record and the sender answered si/sí.
C16_PersistNeedsConfirmation ==
    [][ (last' # last /\ last'.op = "incoming") =>
          /\ last'.branch = "media" => file' = file
          /\ \/ get_guardias(file') = get_guardias(file)
             \/ /\ last'.branch = "text"
                /\ Said(last'.req) \in {si_accent, si_plain}
                /\ last'.had # <<>>
                /\ get_guardias(file') = Append(get_guardias(file), last'.had[1]) ]_vars

C16_Witness ==
    /\ IsMediaCall(last)
    /\ last.status = 200
    /\ last.data[1].rut # None
    /\ last.data[1] \notin RANGE(get_guardias(file))
    /\ pending[last.req.From] = last.data

\* C19: a webhook call answered with 200 has sent exactly one message, to the
\* From address of its own request: the confirmation prompt of the parsed
\* record for a media message, one of the four replies for a text message. No
\* call sends to another address, and a call whose send fails is answered
\* with 500.
C19_OneMessageToSender ==
    last.op = "incoming" =>
        /\ \A i \in 1..Len(last.sent) : last.sent[i].to = last.req.From
        /\ last.env.send = "fail" => last.status = 500
        /\ last.status = 200 =>
              /\ Len(last.sent) = 1
              /\ last.branch = "media" =>
                    last.sent[1].body = ConfirmationPrompt(last.data[1])
              /\ last.branch = "text" =>
                    last.sent[1].body \in {confirmation_message, correction_message,
                                           list_message, default_message}
              /\ last.branch \in {"media", "text"}

C19_Witness ==
    /\ IsMediaCall(last)
    /\ last.status = 200
    /\ last.req.From # Sender1
    /\ last.data[1].rut # None
    /\ last.sent = <<Message(last.req.From, ConfirmationPrompt(last.data[1]))>>

----------------------------------------------------------------------------
(* Concurrent callers of the store functions, one step per file operation *)

\* Before any caller begins: no call yet, and the records the store holds.
Began(f) == [op |-> "none", stored |-> get_guardias(f)]

InitConc ==
    /\ file \in {AbsentFile} \cup InterruptedFiles
                \cup {FileWith(json_dump(l)) : l \in SeqsUpTo(Records, 1)}
    /\ last = Began(file)
    /\ pending = [s \in Senders |-> <<>>]
    /\ IdleCallers

Goto(p, where) == pc' = [pc EXCEPT ![p] = where]
Finish(p, how) ==
    /\ pc' = [pc EXCEPT ![p] = "idle"]
    /\ ret' = [ret EXCEPT ![p] = how]

\* A caller enters save_guardia(data), get_guardias() or clear_guardias().
Start(p, op, data) ==
    /\ pc[p] = "idle"
    /\ calls[p] < MaxCalls
    /\ calls' = [calls EXCEPT ![p] = @ + 1]
    /\ call' = [call EXCEPT ![p] = [op |-> op, data |-> data]]
    /\ guardias' = [guardias EXCEPT ![p] = <<>>]
    /\ ret' = [ret EXCEPT ![p] = Running]
    /\ Goto(p, op)
    /\ UNCHANGED <<file, last, pending, detached>>

\* save_guardia, line 29: if os.path.exists(JSON_FILE_PATH)
SaveExists(p) ==
    /\ pc[p] = "save_guardia"
    /\ Goto(p, IF Exists(file) THEN "save_read" ELSE "save_open")
    /\ UNCHANGED <<file, last, pending, call, guardias, detached, ret, calls>>

\* save_guardia, lines 30-35: open for reading and json.load. A file removed
\* since line 29 makes open raise, which the outer except turns into Exception.
SaveRead(p) ==
    /\ pc[p] = "save_read"
    /\ IF Exists(file)
       THEN /\ guardias' = [guardias EXCEPT ![p] = LoadOrEmpty(file)]
            /\ Goto(p, "save_open")
            /\ UNCHANGED ret
       ELSE /\ Finish(p, RaisedError)
            /\ UNCHANGED guardias
    /\ UNCHANGED <<file, last, pending, call, detached, calls>>

\* save_guardia, lines 38-41: guardias.append(data), then open(.., "w").
SaveOpen(p) ==
    /\ pc[p] = "save_open"
    /\ guardias' = [guardias EXCEPT ![p] = Append(@, call[p].data[1])]
    /\ file' = OpenWrite(file)
    /\ detached' = [detached EXCEPT ![p] = FALSE]
    /\ Goto(p, "save_dump")
    /\ UNCHANGED <<last, pending, call, ret, calls>>

\* save_guardia, lines 42-44: json.dump and the close that flushes it. The text
\* goes to the file this caller opened, which is no longer guardias.json if
\* os.remove unlinked it meanwhile.
SaveDump(p) ==
    /\ pc[p] = "save_dump"
    /\ file' = IF detached[p] THEN file ELSE WriteAt0(file, json_dump(guardias[p]))
    /\ Finish(p, ReturnedValue(<<>>))
    /\ UNCHANGED <<last, pending, call, guardias, detached, calls>>

\* get_guardias, lines 61 and 69-70: os.path.exists, return [] without a file
GetExists(p) ==
    /\ pc[p] = "get_guardias"
    /\ IF Exists(file)
       THEN Goto(p, "get_read") /\ UNCHANGED ret
       ELSE Finish(p, ReturnedValue(<<>>))
    /\ UNCHANGED <<file, last, pending, call, guardias, detached, calls>>

\* get_guardias, lines 62-68: open and json.load; open raises on a removed file
GetRead(p) ==
    /\ pc[p] = "get_read"
    /\ Finish(p, IF Exists(file) THEN ReturnedValue(LoadOrEmpty(file)) ELSE RaisedError)
    /\ UNCHANGED <<file, last, pending, call, guardias, detached, calls>>

\* clear_guardias, lines 86 and 89-90: os.path.exists, nothing to do without a file
ClearExists(p) ==
    /\ pc[p] = "clear_guardias"
    /\ IF Exists(file)
       THEN Goto(p, "clear_remove") /\ UNCHANGED ret
       ELSE Finish(p, ReturnedValue(<<>>))
    /\ UNCHANGED <<file, last, pending, call, guardias, detached, calls>>

\* clear_guardias, lines 87-88: os.remove unlinks the file; callers that have it
\* open for writing keep writing to the unlinked file.
ClearRemove(p) ==
    /\ pc[p] = "clear_remove"
    /\ IF Exists(file)
       THEN /\ file' = AbsentFile
            /\ detached' = [q \in Callers |-> detached[q] \/ pc[q] = "save_dump"]
            /\ Finish(p, ReturnedValue(<<>>))
       ELSE /\ Finish(p, RaisedError)
            /\ UNCHANGED <<file, detached>>
    /\ UNCHANGED <<last, pending, call, guardias, calls>>

NextConc ==
    \E p \in Callers :
        \/ \E data \in Records : Start(p, "save_guardia", <<data>>)
        \/ Start(p, "get_guardias", <<>>)
        \/ Start(p, "clear_guardias", <<>>)
        \/ SaveExists(p)
        \/ SaveRead(p)
        \/ SaveOpen(p)
        \/ SaveDump(p)
        \/ GetExists(p)
        \/ GetRead(p)
        \/ ClearExists(p)
        \/ ClearRemove(p)

ConcSpec == InitConc /\ [][NextConc]_vars

----------------------------------------------------------------------------
(* C1 *)

AllAppended ==
    /\ \A p \in Callers :
          call[p].op = "save_guardia" /\ pc[p] = "idle" /\ ret[p].k = "returned"
    /\ \A p, q \in Callers : p # q => call[p].data # call[q].data

\* C1: when every caller has run save_guardia to its return, each with its
\* own record, the store holds all of these records.
C1_NoLostUpdate ==
    AllAppended => \A p \in Callers : call[p].data[1] \in RANGE(get_guardias(file))

----------------------------------------------------------------------------
(* C17, C18 *)

\* Every caller is idle or in its first call, so call[p] names all there was.
FirstCalls == \A p \in Callers : calls[p] <= 1

\* C17: while no caller has called clear_guardias, the records the store held
\* before the calls began are in every list get_guardias returns, and in the
\* store whenever no save_guardia is between its open and its write.
C17_NothingHidden ==
    (FirstCalls /\ \A p \in Callers : call[p].op # "clear_guardias") =>
        /\ \A p \in Callers :
              (call[p].op = "get_guardias" /\ ret[p].k = "returned")
              => RANGE(last.stored) \subseteq RANGE(ret[p].val)
        /\ (\A p \in Callers : pc[p] # "save_dump")
           => RANGE(last.stored) \subseteq RANGE(get_guardias(file))

\* C18: once a clear_guardias has returned, the store holds none of the
\* records it held before the calls began, unless a caller appends that very
\* record again.
C18_NothingRestored ==
    (/\ FirstCalls
     /\ \E p \in Callers : call[p].op = "clear_guardias" /\ ret[p].k = "returned"
     /\ \A p \in Callers :
           call[p].op = "save_guardia" => call[p].data[1] \notin RANGE(last.stored))
    => \A r \in RANGE(last.stored) : r \notin RANGE(get_guardias(file))

----------------------------------------------------------------------------
(* The pure functions of the pipeline, each applied to inputs drawn from a set *)

ParseCores ==
    { TextEmpty, TextRut, TextNoRut, TextTwoRuts,
      <<"1",".","2","3","4",".","5","6","7","-","k">>,
      <<"1","2",".","3","4","5",".","6","7","8","-","x">>,
      <<"1","2",",","3","4","5",".","6","7","8","-","5">>,
      <<"1",".","2","3","4",".","5","6","7","-","8","9",".","8","7","6",".",
        "5","4","3","-","K">> }

\* The texts handed to parse_extracted_text: a sample with a few characters
\* before it and at most one after it.
ParseTexts ==
    { p \o c \o s : p \in SeqsUpTo({"x", "7"}, MaxPrefix), c \in ParseCores,
                    s \in {<<>>, <<"0">>, <<" ">>} }

\* The byte sequences handed to is_pdf.
ByteSeqs == SeqsUpTo({"%", "P", "D", "F", "x"}, MaxBytes)

\* A file with the leading bytes b whose PDF rendering shows TextRut and whose
\* image decoding shows TextNoRut: the text read tells the branch taken.
Probe(b) == Fetched(MediaFile(b, TRUE, <<Shows(TextRut)>>, "image", Shows(TextNoRut)))

\* Each behaviour applies one function to one input.
InitPure ==
    /\ file = AbsentFile
    /\ last = NoCall
    /\ pending = [s \in Senders |-> <<>>]
    /\ IdleCallers

ParseText(text) ==
    /\ last = NoCall
    /\ last' = [op |-> "parse_extracted_text", text |-> text,
                ret |-> parse_extracted_text(text)]
    /\ UNCHANGED <<file, pending, pc, call, guardias, detached, ret, calls>>

DetectFormat(bytes) ==
    /\ last = NoCall
    /\ last' = [op |-> "is_pdf", bytes |-> bytes, ret |-> is_pdf(bytes),
                text |-> process_media(Probe(bytes)).text]
    /\ UNCHANGED <<file, pending, pc, call, guardias, detached, ret, calls>>

ProcessMedia(fetch) ==
    /\ last = NoCall
    /\ last' = [op |-> "process_media", fetch |-> fetch, ret |-> process_media(fetch),
                rendered |-> PagesRendered(fetch)]
    /\ UNCHANGED <<file, pending, pc, call, guardias, detached, ret, calls>>

NextPure ==
    \/ \E text \in ParseTexts : ParseText(text)
    \/ \E bytes \in ByteSeqs : DetectFormat(bytes)
    \/ \E fetch \in Fetches : ProcessMedia(fetch)

PureSpec == InitPure /\ [][NextPure]_vars

\* s has the shape of the structured id: one or two digits, a period, three
\* digits, a period, three digits, a dash, a digit or k or K.
IsRut(s) ==
    \E n \in {1, 2} :
        /\ Len(s) = n + 10
        /\ \A k \in 1..Len(s) :
              IF k \in {n + 1, n + 5} THEN s[k] = "."
              ELSE IF k = n + 9 THEN s[k] = "-"
              ELSE IF k = n + 10 THEN s[k] \in Digits \cup {"k", "K"}
              ELSE s[k] \in Digits

\* The substrings of t, as <<first, last>> positions, that have that shape.
RutsIn(t) ==
    {m \in (1..Len(t)) \X (1..Len(t)) : m[1] <= m[2] /\ IsRut(SubSeq(t, m[1], m[2]))}

\* C12: parse_extracted_text returns a record for every text; its rut is null
\* when no substring has the shape of the id, and otherwise it is the leftmost
\* substring that has it.
C12_ParseFirstMatch ==
    last.op = "parse_extracted_text" =>
        /\ DOMAIN last.ret = {"nombre", "apellidos", "rut"}
        /\ RutsIn(last.text) = {} => last.ret.rut = None
        /\ RutsIn(last.text) # {} =>
              \E m \in RutsIn(last.text) :
                  /\ last.ret.rut = Str(SubSeq(last.text, m[1], m[2]))
                  /\ \A o \in RutsIn(last.text) : m[1] <= o[1]

C12_Witness ==
    /\ last.op = "parse_extracted_text"
    /\ Cardinality({m[1] : m \in RutsIn(last.text)}) = 2
    /\ last.text[1] = "x"
    /\ last.ret.rut # None

\* C13: is_pdf answers true exactly for the byte sequences that begin with the
\* four bytes %PDF, whatever their length, and process_media takes the PDF
\* branch exactly for those.
C13_FirstFourBytes ==
    last.op = "is_pdf" =>
        LET b == last.bytes
            signed == Len(b) >= 4 /\ b[1] = "%" /\ b[2] = "P" /\ b[3] = "D" /\ b[4] = "F"
        IN  /\ last.ret <=> signed
            /\ last.text = IF signed THEN TextRut ELSE TextNoRut

C13_Witness ==
    /\ last.op = "is_pdf"
    /\ last.bytes = <<"%", "P", "D", "F", "x">>
    /\ last.ret

\* C14: of a PDF with more than one page only page 1 is rasterized, and the
\* text extracted is that of page 1.
C14_OnlyFirstPage ==
    (/\ last.op = "process_media"
     /\ last.fetch.ok
     /\ last.fetch.media.bytes = PdfBytes
     /\ Len(last.fetch.media.pdf.pages) > 1)
    => /\ last.rendered = {1}
       /\ ~last.ret.raised
       /\ last.ret.text = last.fetch.media.pdf.pages[1][1]

====
